---- MODULE Spec2Model ----
(***************************************************************************)
(* State machine of the Bondfire authentication server (src/server.js):    *)
(* the in-memory user store, the login / register / password-reset        *)
(* routes, the MFA (TOTP) enrolment routes and the two bearer-token        *)
(* middlewares.                                                            *)
(*                                                                         *)
(* Idealisations of the libraries the server calls:                        *)
(*  - bcrypt: hashSync(p) is a tagged wrapper of p and compareSync opens   *)
(*    it (a collision-free one-way hash; the salt is left out);            *)
(*  - speakeasy: the code of a secret at a time step is the pair           *)
(*    (secret, step); two codes are equal only if both parts are;          *)
(*  - jsonwebtoken: a token is its claims plus the key that signed it;     *)
(*  - Math.random: every reset token drawn is fresh (a counter).           *)
(* Every route handler is synchronous, so one handler is one action.       *)
(***************************************************************************)
EXTENDS Integers, Sequences, FiniteSets, TLC

VARIABLES users, now, session, nextReset, consumed, superseded, last

vars == <<users, now, session, nextReset, consumed, superseded, last>>

----------------------------------------------------------------------------
(* Bounds of the model *)

\* the store never holds more than MaxUsers records
MaxUsers == 3
\* at most MaxResets reset tokens are ever drawn
MaxResets == 2

(* Program constants *)

JWT_SECRET == "dev-secret"
\* expiresIn: '1h', in seconds
ExpiresIn == 3600
\* window: 1 in both totp.verify calls
Window == 1
\* speakeasy's time step, in seconds (the default: the calls pass no step)
Step == 30

\* JavaScript's null / undefined / '' for a string-valued field
Null == "null"

----------------------------------------------------------------------------
(* Values the clients send *)

\* "test@bondfire.org"
SeedEmail == <<116,101,115,116,64,98,111,110,100,102,105,114,101,46,111,114,103>>
\* "Test@bondfire.org"
SeedEmailUpper == <<84>> \o Tail(SeedEmail)
\* "ann@x.io" and "Ann@x.io"
AnnEmail == <<97,110,110,64,120,46,105,111>>
AnnEmailUpper == <<65>> \o Tail(AnnEmail)
\* the empty sequence is a missing or empty email
Emails == {<<>>, SeedEmail, SeedEmailUpper, AnnEmail, AnnEmailUpper}

Names == {"", "Ann"}
\* "" is a missing or empty password
Passwords == {"", "password123", "hunter2"}
\* base32 secrets speakeasy.generateSecret can return
Secrets == {"JBSWY3DPEHPK3PXP", "KRSXG5CTMVRXEZLU"}
\* instants of the clock, in seconds
Clock == {0, 1800, 3600}
\* time steps, relative to the current one, of the codes a client submits
CodeOffsets == {-10, -2, -1, 0, 1, 2}

\* reset tokens a request can carry besides issued ones:
\* undefined (no field), JSON null, and the empty string
Undefined == -1
NullToken == 0
EmptyToken == -2

----------------------------------------------------------------------------
(* Library functions *)

\* String.prototype.toLowerCase on ASCII
toLowerCase(s) ==
  [i \in DOMAIN s |-> IF s[i] \in 65..90 THEN s[i] + 32 ELSE s[i]]

hashSync(password) == [alg |-> "bcrypt", of |-> password]
compareSync(password, hash) == hash.of = password

\* the TOTP counter of an instant
counter(t) == t \div Step
\* the code of a secret at a counter value
hotp(secret, c) == [secret |-> secret, step |-> c]
\* no code in the request (mfa / token is falsy)
NoCode == [secret |-> Null, step |-> 0]
Codes(t) == {NoCode} \cup {hotp(s, counter(t) + d) : s \in Secrets, d \in CodeOffsets}

\* speakeasy.totp.verify({secret, token, window}) at instant t
totp_verify(secret, token, window, t) ==
  \E c \in (counter(t) - window)..(counter(t) + window) : hotp(secret, c) = token

\* session tokens; NoToken is an absent credential, Garbage a string that is no JWT
NoToken == [sub |-> 0, email |-> <<>>, name |-> "", iat |-> 0, exp |-> 0, key |-> "none"]
Garbage == [sub |-> 0, email |-> <<>>, name |-> "", iat |-> 0, exp |-> 0, key |-> "garbage"]

\* jwt.sign(payload, key, {expiresIn})
jwt_sign(sub, email, name, key, expiresIn, t) ==
  [sub |-> sub, email |-> email, name |-> name, iat |-> t, exp |-> t + expiresIn, key |-> key]

\* jwt.verify(token, key): "ok", or the error it throws
jwt_verify(token, key, t) ==
  IF token.key \in {"none", "garbage"} THEN "JsonWebTokenError"
  ELSE IF token.key # key THEN "JsonWebTokenError"
  ELSE IF t >= token.exp THEN "TokenExpiredError"
  ELSE "ok"

----------------------------------------------------------------------------
(* The user store and the auth helpers *)

SeedUser ==
  [id |-> 1, name |-> "Test User", email |-> SeedEmail,
   passwordHash |-> hashSync("password123"),
   mfaEnabled |-> FALSE, mfaSecret |-> Null, mfaTempSecret |-> Null,
   resetToken |-> NullToken]

Min(S) == CHOOSE x \in S : \A y \in S : x <= y

\* findByEmail comparing the emails as they are written
findByEmail_CaseSensitive(us, email) ==
  LET S == {i \in 1..Len(us) : us[i].email = email}
  IN IF S = {} THEN 0 ELSE Min(S)

\* users.find(u => u.email.toLowerCase() === String(email||'').toLowerCase()),
\* as an index into the store (0: none)
findByEmail(us, email) ==
  LET S == {i \in 1..Len(us) : toLowerCase(us[i].email) = toLowerCase(email)}
  IN IF S = {} THEN 0 ELSE Min(S)

\* users.find(u => u.id === req.user.sub)
findById(us, id) ==
  LET S == {i \in 1..Len(us) : us[i].id = id}
  IN IF S = {} THEN 0 ELSE Min(S)

\* the reset-token lookup without the test that the stored token is truthy
findByResetToken_NoTruthy(us, token) ==
  LET S == {i \in 1..Len(us) : us[i].resetToken = token}
  IN IF S = {} THEN 0 ELSE Min(S)

\* users.find(u => u.resetToken && u.resetToken === token)
findByResetToken(us, token) ==
  LET S == {i \in 1..Len(us) :
              /\ us[i].resetToken \notin {NullToken, EmptyToken}
              /\ us[i].resetToken = token}
  IN IF S = {} THEN 0 ELSE Min(S)

\* generateToken putting the lower-cased email in the payload
generateToken_LowercasesEmail(user, t) ==
  jwt_sign(user.id, toLowerCase(user.email), user.name, JWT_SECRET, ExpiresIn, t)

\* generateToken with a lifetime of half an hour
generateToken_HalfHour(user, t) ==
  jwt_sign(user.id, user.email, user.name, JWT_SECRET, ExpiresIn \div 2, t)

generateToken(user, t) ==
  jwt_sign(user.id, user.email, user.name, JWT_SECRET, ExpiresIn, t)

\* an Authorization header: the text before the credential, and the credential
NoHeader == [prefix |-> "", token |-> NoToken]

\* authRequired reading the payload without verifying signature and expiry
authRequired_Decode(h, t) ==
  IF ~(h.prefix \in {"Bearer ", "Bearer  "} /\ h.token # NoToken) THEN 0
  ELSE IF h.token.key \in {"none", "garbage"} THEN 0
  ELSE h.token.sub

\* authRequired: the payload's sub, or 0 when it answers 401
authRequired(h, t) ==
  IF ~(h.prefix \in {"Bearer ", "Bearer  "} /\ h.token # NoToken) THEN 0
  ELSE IF jwt_verify(h.token, JWT_SECRET, t) # "ok" THEN 0
  ELSE h.token.sub

\* authMiddleware: the payload's sub, or the message of its 401
authMiddleware(h, t) ==
  LET token == IF h.prefix = "Bearer " THEN h.token
               ELSE IF h.prefix = "Bearer  " THEN Garbage
               ELSE NoToken
  IN IF token = NoToken THEN [sub |-> 0, message |-> "Missing token"]
     ELSE IF jwt_verify(token, JWT_SECRET, t) # "ok"
          THEN [sub |-> 0, message |-> "Invalid token"]
     ELSE [sub |-> token.sub, message |-> ""]

\* a response: status, the message / error text, the session token and the
\* user id and MFA secret of the body (NoToken, 0, Null when it has none)
Response(status, message) ==
  [status |-> status, message |-> message, token |-> NoToken, user |-> 0, secret |-> Null]

----------------------------------------------------------------------------
(* Route handlers: the response, and the store after the call *)

\* login checking the code against the pending secret when there is one
loginHandler_PendingSecret(us, email, password, mfa, t) ==
  LET i == findByEmail(us, email)
      secret == IF i # 0 /\ us[i].mfaTempSecret # Null
                THEN us[i].mfaTempSecret ELSE us[i].mfaSecret
  IN IF i = 0 THEN Response(401, "Invalid email or password")
     ELSE IF ~compareSync(password, us[i].passwordHash)
          THEN Response(401, "Invalid email or password")
     ELSE IF us[i].mfaEnabled /\ mfa = NoCode
          THEN Response(401, "MFA code required")
     ELSE IF us[i].mfaEnabled /\ ~totp_verify(secret, mfa, Window, t)
          THEN Response(401, "Invalid MFA code")
     ELSE [Response(200, "") EXCEPT !.token = generateToken(us[i], t), !.user = us[i].id]

\* login telling an unknown email from a wrong password
loginHandler_UserNotFound(us, email, password, mfa, t) ==
  LET i == findByEmail(us, email)
  IN IF i = 0 THEN Response(404, "User not found")
     ELSE IF ~compareSync(password, us[i].passwordHash)
          THEN Response(401, "Invalid email or password")
     ELSE IF us[i].mfaEnabled /\ mfa = NoCode
          THEN Response(401, "MFA code required")
     ELSE IF us[i].mfaEnabled /\ ~totp_verify(us[i].mfaSecret, mfa, Window, t)
          THEN Response(401, "Invalid MFA code")
     ELSE [Response(200, "") EXCEPT !.token = generateToken(us[i], t), !.user = us[i].id]

\* POST /api/auth/login
loginHandler(us, email, password, mfa, t) ==
  LET i == findByEmail(us, email)
  IN IF i = 0 THEN Response(401, "Invalid email or password")
     ELSE IF ~compareSync(password, us[i].passwordHash)
          THEN Response(401, "Invalid email or password")
     ELSE IF us[i].mfaEnabled /\ mfa = NoCode
          THEN Response(401, "MFA code required")
     ELSE IF us[i].mfaEnabled /\ ~totp_verify(us[i].mfaSecret, mfa, Window, t)
          THEN Response(401, "Invalid MFA code")
     ELSE [Response(200, "") EXCEPT !.token = generateToken(us[i], t), !.user = us[i].id]

\* GET /api/auth/me
meHandler(us, h, t) ==
  LET a == authMiddleware(h, t)
      i == findById(us, a.sub)
  IN IF a.sub = 0 THEN Response(401, a.message)
     ELSE IF i = 0 THEN Response(401, "Not found")
     ELSE [Response(200, "") EXCEPT !.user = us[i].id]

\* register hashing the name in place of the password
registerHandler_HashesName(us, name, email, password, t) ==
  IF name = "" \/ email = <<>> \/ password = ""
  THEN [users |-> us, resp |-> Response(400, "Missing fields")]
  ELSE IF findByEmail(us, email) # 0
  THEN [users |-> us, resp |-> Response(409, "Email already registered")]
  ELSE LET user == [id |-> Len(us) + 1, name |-> name, email |-> email,
                    passwordHash |-> hashSync(name),
                    mfaEnabled |-> FALSE, mfaSecret |-> Null,
                    mfaTempSecret |-> Null, resetToken |-> NullToken]
       IN [users |-> Append(us, user),
           resp |-> [Response(201, "") EXCEPT !.token = generateToken(user, t),
                                              !.user = user.id]]

\* POST /api/auth/register
registerHandler(us, name, email, password, t) ==
  IF name = "" \/ email = <<>> \/ password = ""
  THEN [users |-> us, resp |-> Response(400, "Missing fields")]
  ELSE IF findByEmail(us, email) # 0
  THEN [users |-> us, resp |-> Response(409, "Email already registered")]
  ELSE LET user == [id |-> Len(us) + 1, name |-> name, email |-> email,
                    passwordHash |-> hashSync(password),
                    mfaEnabled |-> FALSE, mfaSecret |-> Null,
                    mfaTempSecret |-> Null, resetToken |-> NullToken]
       IN [users |-> Append(us, user),
           resp |-> [Response(201, "") EXCEPT !.token = generateToken(user, t),
                                              !.user = user.id]]

\* forgot-password keeping a reset token the user already holds
forgotPasswordHandler_KeepsOld(us, email, random) ==
  LET i == findByEmail(us, email)
  IN [users |-> IF i = 0 \/ us[i].resetToken # NullToken THEN us
                ELSE [us EXCEPT ![i].resetToken = random],
      resp |-> Response(200, "")]

\* forgot-password answering 404 to an unknown email
forgotPasswordHandler_NotFound(us, email, random) ==
  LET i == findByEmail(us, email)
  IN [users |-> IF i = 0 THEN us ELSE [us EXCEPT ![i].resetToken = random],
      resp |-> IF i = 0 THEN Response(404, "User not found") ELSE Response(200, "")]

\* POST /api/auth/forgot-password; random is the token Math.random yields
forgotPasswordHandler(us, email, random) ==
  LET i == findByEmail(us, email)
  IN [users |-> IF i = 0 THEN us ELSE [us EXCEPT ![i].resetToken = random],
      resp |-> Response(200, "")]

\* reset-password rehashing the first user's password
resetPasswordHandler_FirstUser(us, token, newPassword) ==
  LET i == findByResetToken(us, token)
  IN IF i = 0 THEN [users |-> us, resp |-> Response(400, "Invalid token")]
     ELSE [users |-> [us EXCEPT ![1].passwordHash = hashSync(newPassword),
                                ![i].resetToken = NullToken],
           resp |-> Response(200, "")]

\* reset-password leaving the reset token on the user
resetPasswordHandler_KeepsToken(us, token, newPassword) ==
  LET i == findByResetToken(us, token)
  IN IF i = 0 THEN [users |-> us, resp |-> Response(400, "Invalid token")]
     ELSE [users |-> [us EXCEPT ![i].passwordHash = hashSync(newPassword)],
           resp |-> Response(200, "")]

\* POST /api/auth/reset-password
resetPasswordHandler(us, token, newPassword) ==
  LET i == findByResetToken(us, token)
  IN IF i = 0 THEN [users |-> us, resp |-> Response(400, "Invalid token")]
     ELSE [users |-> [us EXCEPT ![i].passwordHash = hashSync(newPassword),
                                ![i].resetToken = NullToken],
           resp |-> Response(200, "")]

\* mfa/setup keeping a pending secret the user already holds
mfaSetupHandler_KeepsFirst(us, h, generated, t) ==
  LET sub == authRequired(h, t)
      i == findById(us, sub)
  IN IF sub = 0 THEN [users |-> us, resp |-> Response(401, "Unauthorized")]
     ELSE IF i = 0 THEN [users |-> us, resp |-> Response(404, "User not found")]
     ELSE [users |-> IF us[i].mfaTempSecret # Null THEN us
                     ELSE [us EXCEPT ![i].mfaTempSecret = generated],
           resp |-> [Response(200, "") EXCEPT !.secret = generated]]

\* GET /api/auth/mfa/setup; generated is the secret speakeasy.generateSecret yields
mfaSetupHandler(us, h, generated, t) ==
  LET sub == authRequired(h, t)
      i == findById(us, sub)
  IN IF sub = 0 THEN [users |-> us, resp |-> Response(401, "Unauthorized")]
     ELSE IF i = 0 THEN [users |-> us, resp |-> Response(404, "User not found")]
     ELSE [users |-> [us EXCEPT ![i].mfaTempSecret = generated],
           resp |-> [Response(200, "") EXCEPT !.secret = generated]]

\* mfa/verify dropping the pending secret when the code is wrong
mfaVerifyHandler_ClearsOnFail(us, h, token, secret, t) ==
  LET sub == authRequired(h, t)
      i == findById(us, sub)
      base32 == IF secret # Null THEN secret ELSE us[i].mfaTempSecret
  IN IF sub = 0 THEN [users |-> us, resp |-> Response(401, "Unauthorized")]
     ELSE IF i = 0 THEN [users |-> us, resp |-> Response(404, "User not found")]
     ELSE IF token = NoCode \/ base32 = Null
          THEN [users |-> us, resp |-> Response(400, "Missing token or secret")]
     ELSE IF ~totp_verify(base32, token, Window, t)
          THEN [users |-> [us EXCEPT ![i].mfaTempSecret = Null],
                resp |-> Response(400, "Invalid code")]
     ELSE [users |-> [us EXCEPT ![i].mfaEnabled = TRUE,
                                ![i].mfaSecret = base32,
                                ![i].mfaTempSecret = Null],
           resp |-> Response(200, "")]

\* POST /api/auth/mfa/verify
mfaVerifyHandler(us, h, token, secret, t) ==
  LET sub == authRequired(h, t)
      i == findById(us, sub)
      base32 == IF secret # Null THEN secret ELSE us[i].mfaTempSecret
  IN IF sub = 0 THEN [users |-> us, resp |-> Response(401, "Unauthorized")]
     ELSE IF i = 0 THEN [users |-> us, resp |-> Response(404, "User not found")]
     ELSE IF token = NoCode \/ base32 = Null
          THEN [users |-> us, resp |-> Response(400, "Missing token or secret")]
     ELSE IF ~totp_verify(base32, token, Window, t)
          THEN [users |-> us, resp |-> Response(400, "Invalid code")]
     ELSE [users |-> [us EXCEPT ![i].mfaEnabled = TRUE,
                                ![i].mfaSecret = base32,
                                ![i].mfaTempSecret = Null],
           resp |-> Response(200, "")]

\* mfa/disable clearing the secrets and leaving MFA switched on
mfaDisableHandler_KeepsEnabled(us, h, t) ==
  LET sub == authRequired(h, t)
      i == findById(us, sub)
  IN IF sub = 0 THEN [users |-> us, resp |-> Response(401, "Unauthorized")]
     ELSE IF i = 0 THEN [users |-> us, resp |-> Response(404, "User not found")]
     ELSE [users |-> [us EXCEPT ![i].mfaSecret = Null,
                                ![i].mfaTempSecret = Null],
           resp |-> Response(200, "")]

\* mfa/disable forgetting to clear the active secret
mfaDisableHandler_KeepsSecret(us, h, t) ==
  LET sub == authRequired(h, t)
      i == findById(us, sub)
  IN IF sub = 0 THEN [users |-> us, resp |-> Response(401, "Unauthorized")]
     ELSE IF i = 0 THEN [users |-> us, resp |-> Response(404, "User not found")]
     ELSE [users |-> [us EXCEPT ![i].mfaEnabled = FALSE,
                                ![i].mfaTempSecret = Null],
           resp |-> Response(200, "")]

\* POST /api/auth/mfa/disable
mfaDisableHandler(us, h, t) ==
  LET sub == authRequired(h, t)
      i == findById(us, sub)
  IN IF sub = 0 THEN [users |-> us, resp |-> Response(401, "Unauthorized")]
     ELSE IF i = 0 THEN [users |-> us, resp |-> Response(404, "User not found")]
     ELSE [users |-> [us EXCEPT ![i].mfaEnabled = FALSE,
                                ![i].mfaSecret = Null,
                                ![i].mfaTempSecret = Null],
           resp |-> Response(200, "")]

----------------------------------------------------------------------------------------------------------------------------------------
(* The state machine *)

\* a request: the body fields and the Authorization header a route reads;
\* a field the request does not carry has the value it has here
Request ==
  [email |-> <<>>, password |-> "", name |-> "", code |-> NoCode, secret |-> Null,
   token |-> Undefined, newPassword |-> "", authorization |-> NoHeader]

\* the last request served: its route, the request and the response
Served(op, req, resp) == [op |-> op, req |-> req, resp |-> resp]

Init ==
  /\ users = <<SeedUser>>
  /\ now = 0
  /\ session = NoToken
  /\ nextReset = 1
  /\ consumed = {}
  /\ superseded = {}
  /\ last = Served("listen", Request, Response(0, ""))

\* the client keeps the token of a response that carries one, or drops it
Keep(resp) ==
  session' \in (IF resp.token = NoToken THEN {session} ELSE {session, resp.token})

\* credentials a client can put in an Authorization header: none, junk, the
\* token it holds, and tokens it signs itself with a key of its own
Credentials ==
  {NoToken, Garbage, session}
    \cup {jwt_sign(users[i].id, users[i].email, users[i].name, "attacker-key", ExpiresIn, now) :
            i \in 1..Len(users)}
Headers ==
  {NoHeader} \cup [prefix : {"Bearer ", "Bearer  ", "Basic "}, token : Credentials]

\* reset tokens a request can carry: every token drawn so far, and the falsy ones
ResetTokens == {Undefined, NullToken, EmptyToken} \cup 1..(nextReset - 1)

Login(email, password, mfa) ==
  LET resp == loginHandler(users, email, password, mfa, now)
      req == [Request EXCEPT !.email = email, !.password = password, !.code = mfa]
  IN /\ last' = Served("login", req, resp)
     /\ Keep(resp)
     /\ UNCHANGED <<users, now, nextReset, consumed, superseded>>

Me(h) ==
  /\ last' = Served("me", [Request EXCEPT !.authorization = h], meHandler(users, h, now))
  /\ UNCHANGED <<users, now, session, nextReset, consumed, superseded>>

Register(name, email, password) ==
  LET r == registerHandler(users, name, email, password, now)
      req == [Request EXCEPT !.name = name, !.email = email, !.password = password]
  IN /\ Len(r.users) <= MaxUsers
     /\ users' = r.users
     /\ last' = Served("register", req, r.resp)
     /\ Keep(r.resp)
     /\ UNCHANGED <<now, nextReset, consumed, superseded>>

ForgotPassword(email) ==
  LET i == findByEmail(users, email)
      r == forgotPasswordHandler(users, email, nextReset)
  IN /\ i # 0 => nextReset <= MaxResets
     /\ users' = r.users
     /\ last' = Served("forgot-password", [Request EXCEPT !.email = email], r.resp)
     /\ nextReset' = IF i = 0 THEN nextReset ELSE nextReset + 1
     /\ superseded' = IF i # 0 /\ users[i].resetToken # NullToken
                      THEN superseded \cup {users[i].resetToken} ELSE superseded
     /\ UNCHANGED <<now, session, consumed>>

ResetPassword(token, newPassword) ==
  LET r == resetPasswordHandler(users, token, newPassword)
      req == [Request EXCEPT !.token = token, !.newPassword = newPassword]
  IN /\ users' = r.users
     /\ last' = Served("reset-password", req, r.resp)
     /\ consumed' = IF r.resp.status = 200 THEN consumed \cup {token} ELSE consumed
     /\ UNCHANGED <<now, session, nextReset, superseded>>

MfaSetup(h, generated) ==
  LET r == mfaSetupHandler(users, h, generated, now)
  IN /\ users' = r.users
     /\ last' = Served("mfa/setup", [Request EXCEPT !.authorization = h], r.resp)
     /\ UNCHANGED <<now, session, nextReset, consumed, superseded>>

MfaVerify(h, token, secret) ==
  LET r == mfaVerifyHandler(users, h, token, secret, now)
      req == [Request EXCEPT !.authorization = h, !.code = token, !.secret = secret]
  IN /\ users' = r.users
     /\ last' = Served("mfa/verify", req, r.resp)
     /\ UNCHANGED <<now, session, nextReset, consumed, superseded>>

MfaDisable(h) ==
  LET r == mfaDisableHandler(users, h, now)
  IN /\ users' = r.users
     /\ last' = Served("mfa/disable", [Request EXCEPT !.authorization = h], r.resp)
     /\ UNCHANGED <<now, session, nextReset, consumed, superseded>>

\* time passes between two requests
Tick ==
  /\ \E t \in Clock : t > now /\ now' = t
  /\ last' = Served("tick", Request, Response(0, ""))
  /\ UNCHANGED <<users, session, nextReset, consumed, superseded>>

Next ==
  \/ \E e \in Emails, p \in Passwords, m \in Codes(now) : Login(e, p, m)
  \/ \E h \in Headers : Me(h)
  \/ \E n \in Names, e \in Emails, p \in Passwords : Register(n, e, p)
  \/ \E e \in Emails : ForgotPassword(e)
  \/ \E k \in ResetTokens, p \in Passwords : ResetPassword(k, p)
  \/ \E h \in Headers, s \in Secrets : MfaSetup(h, s)
  \/ \E h \in Headers, c \in Codes(now), s \in Secrets \cup {Null} : MfaVerify(h, c, s)
  \/ \E h \in Headers : MfaDisable(h)
  \/ Tick

Spec == Init /\ [][Next]_vars

----------------------------------------------------------------------------
(* Two restrictions of Next to fewer requests.  The actions are those of   *)
(* Next.  A request carries a field only when its handler reads it (a      *)
(* body is not read once the bearer token is refused, a code is not read   *)
(* unless the password passed and MFA is on, a new password is not read    *)
(* unless the reset token matched); and each restriction leaves out the    *)
(* values of the routes it is not about.                                   *)

\* headers: every credential as a bearer, and the held token the wrong way
FewHeaders ==
  {NoHeader} \cup [prefix : {"Bearer "}, token : Credentials]
    \cup [prefix : {"Bearer  ", "Basic "}, token : {session}]

\* login reads the code only for a user with MFA on whose password matched
LoginReads(e, p, m) ==
  LET i == findByEmail(users, e)
  IN m # NoCode => i # 0 /\ compareSync(p, users[i].passwordHash) /\ users[i].mfaEnabled

\* MFA enrolment and login at one instant: one registration, fixed
\* passwords, no resets; the codes submitted are those of earlier, current
\* and later time steps
NextMfa ==
  \/ \E e \in {SeedEmail, AnnEmailUpper}, p \in {"password123", "hunter2"}, m \in Codes(now) :
       LoginReads(e, p, m) /\ Login(e, p, m)
  \/ \E h \in FewHeaders : Me(h)
  \/ Register("Ann", AnnEmail, "hunter2")
  \/ \E h \in FewHeaders, s \in Secrets : MfaSetup(h, s)
  \/ \E h \in FewHeaders, c \in Codes(now), s \in Secrets \cup {Null} :
       /\ authRequired(h, now) = 0 => c = NoCode /\ s = Null
       /\ MfaVerify(h, c, s)
  \/ \E h \in FewHeaders : MfaDisable(h)

SpecMfa == Init /\ [][NextMfa]_vars

\* sessions over time: logins, MFA changes with one secret and the current
\* code, and password resets of the seeded user, while the clock moves past
\* the tokens' expiry
NextSession ==
  \/ \E e \in {SeedEmail, AnnEmail}, p \in {"password123", "hunter2"},
        m \in {NoCode, hotp("JBSWY3DPEHPK3PXP", counter(now))} :
       LoginReads(e, p, m) /\ Login(e, p, m)
  \/ \E h \in FewHeaders : Me(h)
  \/ Register("Ann", AnnEmail, "hunter2")
  \/ \E h \in FewHeaders : MfaSetup(h, "JBSWY3DPEHPK3PXP")
  \/ \E h \in FewHeaders, c \in {NoCode, hotp("JBSWY3DPEHPK3PXP", counter(now))} :
       /\ authRequired(h, now) = 0 => c = NoCode
       /\ MfaVerify(h, c, Null)
  \/ \E h \in FewHeaders : MfaDisable(h)
  \/ ForgotPassword(SeedEmail)
  \/ \E k \in {Undefined} \cup 1..(nextReset - 1) :
       ResetPassword(k, IF findByResetToken(users, k) = 0 THEN "" ELSE "hunter2")
  \/ Tick

SpecSession == Init /\ [][NextSession]_vars

\* accounts and password resets: every registration and reset input, no MFA
NextAccounts ==
  \/ \E e \in Emails, p \in Passwords : Login(e, p, NoCode)
  \/ \E h \in FewHeaders : Me(h)
  \/ \E n \in Names, e \in Emails, p \in Passwords : Register(n, e, p)
  \/ \E e \in Emails : ForgotPassword(e)
  \/ \E k \in ResetTokens, p \in Passwords :
       /\ findByResetToken(users, k) = 0 => p = ""
       /\ ResetPassword(k, p)

SpecAccounts == Init /\ [][NextAccounts]_vars

----------------------------------------------------------------------------
(* What the claims speak of, stated apart from the handlers *)

\* the users whose email equals e after lower-casing
Matches(us, e) == {i \in 1..Len(us) : toLowerCase(us[i].email) = toLowerCase(e)}
\* the stored hash is the hash of password p
PasswordMatches(u, p) == u.passwordHash = hashSync(p)
\* code is the code of secret at time t or one time step before or after it
ValidCode(secret, code, t) == \E d \in {-1, 0, 1} : code = hotp(secret, counter(t) + d)
\* the users a bearer token names
Subjects(us, h) == {i \in 1..Len(us) : us[i].id = h.token.sub}

MfaRequired == Response(401, "MFA code required")
InvalidMfaCode == Response(401, "Invalid MFA code")

----------------------------------------------------------------------------
(* C1: login issues a session token only if the password matches the      *)
(* user's passwordHash and, with MFA enabled, the request carries a code   *)
(* valid for the active mfaSecret within one time step either way.  With   *)
(* MFA enabled and the right password, a login without a code is answered  *)
(* MfaRequired and one with a code not valid for the active secret         *)
(* InvalidMfaCode; neither is the answer to a wrong password.              *)
C1_LoginMfa ==
  last.op = "login" =>
    LET r == last.req
        U == Matches(users, r.email)
    IN /\ last.resp.token # NoToken =>
            \E i \in U :
              /\ PasswordMatches(users[i], r.password)
              /\ users[i].mfaEnabled =>
                   r.code # NoCode /\ ValidCode(users[i].mfaSecret, r.code, now)
       /\ \A i \in U :
            PasswordMatches(users[i], r.password) /\ users[i].mfaEnabled =>
              /\ r.code = NoCode => last.resp = MfaRequired
              /\ r.code # NoCode /\ ~ValidCode(users[i].mfaSecret, r.code, now) =>
                   last.resp = InvalidMfaCode
       /\ last.resp \in {MfaRequired, InvalidMfaCode} =>
            \E i \in U : PasswordMatches(users[i], r.password)

\* a login with the right password and the current code of the pending
\* secret only, refused with InvalidMfaCode
C1_Witness ==
  /\ last.op = "login"
  /\ last.resp = InvalidMfaCode
  /\ \E i \in Matches(users, last.req.email) :
       /\ users[i].mfaEnabled
       /\ users[i].mfaTempSecret \notin {Null, users[i].mfaSecret}
       /\ last.req.code = hotp(users[i].mfaTempSecret, counter(now))

(* C2: mfaVerify succeeds only for a user with a pending secret and a code *)
(* valid for that pending secret, a secret given in the request being      *)
(* accepted only if it is the pending one; after a success the active      *)
(* secret is the one that was pending, mfaEnabled is true and the pending  *)
(* secret is cleared.                                                      *)
C2_VerifyFromPending ==
  [][last'.op = "mfa/verify" /\ last'.resp.status = 200 =>
       \E i \in Subjects(users, last'.req.authorization) :
         /\ users[i].mfaTempSecret # Null
         /\ ValidCode(users[i].mfaTempSecret, last'.req.code, now)
         /\ last'.req.secret # Null => last'.req.secret = users[i].mfaTempSecret
         /\ users'[i].mfaSecret = users[i].mfaTempSecret
         /\ users'[i].mfaEnabled
         /\ users'[i].mfaTempSecret = Null]_vars

(* C4: for every user, mfaSecret is present iff mfaEnabled is true.        *)
C4_SecretIffEnabled ==
  \A i \in 1..Len(users) : (users[i].mfaSecret # Null) <=> users[i].mfaEnabled

\* a user was enabled and then disabled
C4_Witness ==
  /\ last.op = "mfa/disable"
  /\ last.resp.status = 200
  /\ \E i \in 1..Len(users) : users[i].mfaEnabled
  /\ \E i \in 1..Len(users) : ~users[i].mfaEnabled

(* C5: no user holds both an active mfaSecret and a pending secret,        *)
(* also after mfaSetup for a user whose MFA is enabled.                    *)
C5_ActiveXorPending ==
  \A i \in 1..Len(users) :
    ~(users[i].mfaSecret # Null /\ users[i].mfaTempSecret # Null)

(* C3: no two users have emails equal after lower-casing, and a register   *)
(* with name, email and password whose email equals an existing user's     *)
(* after lower-casing is answered DuplicateEmail and adds no user.         *)
DuplicateEmail == Response(409, "Email already registered")

C3_UniqueEmails ==
  [][/\ users' # users =>
          \A i, j \in 1..Len(users') :
            toLowerCase(users'[i].email) = toLowerCase(users'[j].email) => i = j
     /\ ( /\ last'.op = "register"
          /\ last'.req.name # "" /\ last'.req.password # ""
          /\ Matches(users, last'.req.email) # {} )
        => last'.resp = DuplicateEmail /\ users' = users]_vars

\* a register refused for an email that differs from a registered user's,
\* not the seeded one's, by case only
C3_Witness ==
  /\ last.op = "register"
  /\ last.resp = DuplicateEmail
  /\ \E i \in Matches(users, last.req.email) :
       i > 1 /\ users[i].email # last.req.email

(* C6: a stored reset token is used once: a resetPassword presenting a     *)
(* token some user holds succeeds, and every resetPassword presenting a    *)
(* token that an earlier resetPassword used is answered InvalidToken.      *)
InvalidToken == Response(400, "Invalid token")

C6_SingleUse ==
  [][last'.op = "reset-password" =>
       LET k == last'.req.token
       IN /\ (k >= 1 /\ \E i \in 1..Len(users) : users[i].resetToken = k)
               => last'.resp.status = 200 /\ k \in consumed'
          /\ k \in consumed => last'.resp = InvalidToken /\ users' = users]_vars

\* a used token presented again, in a store of two users
C6_Witness ==
  /\ last.op = "reset-password"
  /\ last.req.token \in consumed
  /\ last.resp = InvalidToken
  /\ Len(users) = 2

(* C7: a reset token is void once a later requestPasswordReset for its     *)
(* user replaced it: resetPassword with it is answered InvalidToken, and   *)
(* the token a user holds is never a replaced or a used one.               *)
C7_Superseded ==
  [][/\ \A i \in 1..Len(users') : users'[i].resetToken \notin superseded' \cup consumed'
     /\ (last'.op = "reset-password" /\ last'.req.token \in superseded)
          => last'.resp = InvalidToken /\ users' = users]_vars

\* the first of two tokens refused while the user holds the second
C7_Witness ==
  /\ last.op = "reset-password"
  /\ last.req.token \in superseded
  /\ last.resp = InvalidToken
  /\ \E i \in 1..Len(users) : users[i].resetToken > last.req.token

(* C8: a login whose email matches no user and a login whose email matches *)
(* a user with another password get the same response, InvalidCredentials  *)
(* with the same message.                                                  *)
InvalidCredentials == Response(401, "Invalid email or password")

C8_SameFailure ==
  last.op = "login" =>
    LET U == Matches(users, last.req.email)
    IN (U = {} \/ \A i \in U : ~PasswordMatches(users[i], last.req.password))
         => last.resp = InvalidCredentials

\* a login for an email no user has, with a password some user has
C8_Witness ==
  /\ last.op = "login"
  /\ last.req.email # <<>>
  /\ Matches(users, last.req.email) = {}
  /\ \E i \in 1..Len(users) : PasswordMatches(users[i], last.req.password)
  /\ last.resp = InvalidCredentials

(* C9: requestPasswordReset answers the same success, without the reset    *)
(* token, whether or not the email is a user's; for an unknown email the   *)
(* store is unchanged, for a known one only that user's resetToken changes.*)
C9_ForgotPassword ==
  [][last'.op = "forgot-password" =>
       LET U == Matches(users, last'.req.email)
       IN /\ last'.resp = Response(200, "")
          /\ Len(users') = Len(users)
          /\ U = {} => users' = users
          /\ \A i \in 1..Len(users) :
               IF i \in U
               THEN [users'[i] EXCEPT !.resetToken = users[i].resetToken] = users[i]
               ELSE users'[i] = users[i]]_vars

\* a reset requested for one of two users
C9_Witness ==
  /\ last.op = "forgot-password"
  /\ Len(users) = 2
  /\ \E i \in Matches(users, last.req.email) : users[i].resetToken >= 1
  /\ \E j \in 1..Len(users) : users[j].resetToken = NullToken

(* C10: me, mfaSetup, mfaVerify and mfaDisable run only for a request      *)
(* whose bearer token is signed with the server's secret and not expired;  *)
(* any other request is answered 401 and changes no user.                  *)
Protected == {"me", "mfa/setup", "mfa/verify", "mfa/disable"}

ValidBearer(h, t) ==
  /\ h.prefix \in {"Bearer ", "Bearer  "}
  /\ h.token.key = JWT_SECRET
  /\ t < h.token.exp

C10_Protected ==
  [][(last'.op \in Protected /\ ~ValidBearer(last'.req.authorization, now))
       => last'.resp.status = 401 /\ users' = users]_vars

\* a token signed by the server presented after its expiry, for a user
\* whose MFA state the request would have changed
C10_Witness ==
  /\ last.op = "mfa/disable"
  /\ last.req.authorization.prefix = "Bearer "
  /\ last.req.authorization.token.key = JWT_SECRET
  /\ now >= last.req.authorization.token.exp
  /\ last.resp.status = 401
  /\ \E i \in Subjects(users, last.req.authorization) : users[i].mfaEnabled

(* C11: a protected route answers a correctly signed but expired token     *)
(* (Expired) differently from a token whose signature does not verify      *)
(* (Invalid).                                                              *)
Forged(h) == [h EXCEPT !.token.key = "attacker-key"]

C11_ExpiredIsNotInvalid ==
  LET h == last.req.authorization
  IN (h.prefix = "Bearer " /\ h.token.key = JWT_SECRET /\ now >= h.token.exp) =>
       /\ last.op = "me" => last.resp # meHandler(users, Forged(h), now)
       /\ last.op = "mfa/disable" =>
            last.resp # mfaDisableHandler(users, Forged(h), now).resp

(* C12: a session token minted by login or register is accepted by the     *)
(* protected routes at every time before its expiry (issue time + 1 hour)  *)
(* and refused from its expiry on, whatever password resets or MFA changes *)
(* its subject went through since.                                         *)
ServerSigned(h) == h.prefix = "Bearer " /\ h.token.key = JWT_SECRET

C13_OneVerifyWins ==
  [][( /\ last.op = "mfa/verify" /\ last.resp.status = 200
       /\ last'.op = "mfa/verify"
       /\ last'.req.authorization.token.sub = last.req.authorization.token.sub )
       => last'.resp.status # 200 /\ users' = users]_vars

(* C14: an mfaVerify that fails changes no user.  With a valid session, a  *)
(* request without a code, or with neither a secret nor a pending secret,  *)
(* is answered with the validation error, and one whose code is not valid  *)
(* for the secret it is checked against with InvalidCode; a user in        *)
(* PendingVerification then keeps the same pending secret.                 *)
InvalidCode == Response(400, "Invalid code")
MissingTokenOrSecret == Response(400, "Missing token or secret")

C14_FailedVerify ==
  [][last'.op = "mfa/verify" =>
       LET r == last'.req
       IN /\ last'.resp.status # 200 => users' = users
          /\ \A i \in Subjects(users, r.authorization) :
               LET used == IF r.secret # Null THEN r.secret ELSE users[i].mfaTempSecret
               IN ValidBearer(r.authorization, now) =>
                    /\ (r.code = NoCode \/ used = Null) => last'.resp = MissingTokenOrSecret
                    /\ (r.code # NoCode /\ used # Null /\ ~ValidCode(used, r.code, now))
                         => last'.resp = InvalidCode]_vars

\* a wrong code refused for a user who stays in PendingVerification
C14_Witness ==
  /\ last.op = "mfa/verify"
  /\ last.resp = InvalidCode
  /\ last.req.secret = Null
  /\ \E i \in Subjects(users, last.req.authorization) :
       ~users[i].mfaEnabled /\ users[i].mfaTempSecret # Null

(* C15: a successful mfaSetup stores the secret it returns as the user's   *)
(* one pending secret, replacing whichever was pending, and changes        *)
(* nothing else; no other request puts a secret there (it can only clear   *)
(* it).  An mfaVerify without a secret of its own succeeds only on a code  *)
(* valid for the stored pending secret, so a code valid only for a secret  *)
(* of an earlier mfaSetup is refused.                                      *)
C15_LatestPendingSecret ==
  [][/\ (last'.op = "mfa/setup" /\ last'.resp.status = 200) =>
          /\ last'.resp.secret # Null
          /\ \E i \in Subjects(users, last'.req.authorization) :
               users' = [users EXCEPT ![i].mfaTempSecret = last'.resp.secret]
     /\ ~(last'.op = "mfa/setup" /\ last'.resp.status = 200) =>
          \A i \in 1..Len(users) :
            users'[i].mfaTempSecret \in {users[i].mfaTempSecret, Null}
     /\ (last'.op = "mfa/verify" /\ last'.req.secret = Null) =>
          \A i \in Subjects(users, last'.req.authorization) :
            last'.resp.status = 200 =>
              ValidCode(users[i].mfaTempSecret, last'.req.code, now)]_vars

\* the current code of the other secret refused by an mfaVerify that relies
\* on the stored pending secret
C15_Witness ==
  /\ last.op = "mfa/verify"
  /\ last.req.secret = Null
  /\ last.resp = InvalidCode
  /\ \E i \in Subjects(users, last.req.authorization), s \in Secrets :
       /\ users[i].mfaTempSecret \in Secrets \ {s}
       /\ last.req.code = hotp(s, counter(now))

(* C16: mfaDisable by a user with a valid session needs no code and        *)
(* succeeds; after it the user's mfaEnabled is false, mfaSecret and the    *)
(* pending secret are absent and nothing else has changed; a login that    *)
(* follows with the user's email, the right password and no code succeeds. *)
C16_Disable ==
  [][/\ last'.op = "mfa/disable" =>
          \A i \in Subjects(users, last'.req.authorization) :
            ValidBearer(last'.req.authorization, now) =>
              /\ last'.req.code = NoCode
              /\ last'.resp.status = 200
              /\ users' = [users EXCEPT ![i].mfaEnabled = FALSE,
                                        ![i].mfaSecret = Null,
                                        ![i].mfaTempSecret = Null]
     /\ (last.op = "mfa/disable" /\ last.resp.status = 200 /\ last'.op = "login") =>
          \A i \in Subjects(users, last.req.authorization) :
            ( /\ i \in Matches(users, last'.req.email)
              /\ PasswordMatches(users[i], last'.req.password)
              /\ last'.req.code = NoCode )
              => last'.resp.status = 200 /\ last'.resp.token # NoToken]_vars

\* mfaDisable served for a user who is left in Disabled while another
\* user still has MFA on
C16_Witness ==
  /\ last.op = "mfa/disable"
  /\ last.resp.status = 200
  /\ \E i \in Subjects(users, last.req.authorization) :
       /\ ~users[i].mfaEnabled
       /\ users[i].mfaSecret = Null
       /\ users[i].mfaTempSecret = Null
       /\ \E j \in 1..Len(users) : j # i /\ users[j].mfaEnabled

(* C17: a register with non-empty name, email and password whose           *)
(* lower-cased email no user has succeeds: it adds exactly one user, with  *)
(* that email and password, leaves the others as they were and returns a   *)
(* token; a login that follows with the same email and password succeeds.  *)
(* A register with an empty name, email or password is answered with the   *)
(* validation error and adds nothing.                                      *)
MissingFields == Response(400, "Missing fields")

C17_Register ==
  [][/\ last'.op = "register" =>
          LET r == last'.req
              empty == r.name = "" \/ r.email = <<>> \/ r.password = ""
          IN /\ empty => last'.resp = MissingFields /\ users' = users
             /\ (~empty /\ Matches(users, r.email) = {}) =>
                  /\ last'.resp.status = 201
                  /\ last'.resp.token # NoToken
                  /\ Len(users') = Len(users) + 1
                  /\ SubSeq(users', 1, Len(users)) = users
                  /\ users'[Len(users')].email = r.email
                  /\ PasswordMatches(users'[Len(users')], r.password)
     /\ ( /\ last.op = "register" /\ last.resp.status = 201
          /\ last'.op = "login"
          /\ last'.req.email = last.req.email
          /\ last'.req.password = last.req.password )
          => last'.resp.status = 200 /\ last'.resp.token # NoToken]_vars

\* a second user registered under an email written with a capital letter
C17_Witness ==
  /\ last.op = "register"
  /\ last.resp.status = 201
  /\ last.req.email = AnnEmailUpper
  /\ Len(users) = 2
  /\ users[2].email = AnnEmailUpper

(* C18: a successful resetPassword rehashes the password of the user who   *)
(* holds the token and changes nothing else but that user's reset token:   *)
(* no other user, and not the user's id, email, name or MFA fields.        *)
(* Afterwards login's password check for that user passes with newPassword *)
(* and answers InvalidCredentials for every other password, the previous   *)
(* one included.                                                           *)
C18_ResetReplacesPassword ==
  [][(last'.op = "reset-password" /\ last'.resp.status = 200) =>
       LET r == last'.req
       IN \E i \in 1..Len(users) :
            /\ users[i].resetToken = r.token
            /\ users' = [users EXCEPT ![i].passwordHash = users'[i].passwordHash,
                                      ![i].resetToken = users'[i].resetToken]
            /\ loginHandler(users', users[i].email, r.newPassword, NoCode, now)
                 # InvalidCredentials
            /\ \A p \in Passwords :
                 p # r.newPassword =>
                   loginHandler(users', users[i].email, p, NoCode, now)
                     = InvalidCredentials]_vars

\* the second user's password reset to a new one while the first user
\* keeps an unused reset token and the seeded password
C18_Witness ==
  /\ last.op = "reset-password"
  /\ last.resp.status = 200
  /\ Len(users) = 2
  /\ users[2].passwordHash = hashSync(last.req.newPassword)
  /\ users[1].passwordHash = SeedUser.passwordHash
  /\ users[1].passwordHash # users[2].passwordHash
  /\ users[1].resetToken # NullToken

(* C19: a resetPassword whose token no user holds is answered InvalidToken *)
(* and changes no user; a missing, null or empty token is held by nobody,  *)
(* also when users have no reset token (null).                             *)
C19_UnheldToken ==
  [][last'.op = "reset-password" =>
       LET k == last'.req.token
       IN ( \/ k \in {Undefined, NullToken, EmptyToken}
            \/ \A i \in 1..Len(users) : users[i].resetToken # k )
            => last'.resp = InvalidToken /\ users' = users]_vars

\* a null token refused while one user has no reset token and another
\* holds one
C19_Witness ==
  /\ last.op = "reset-password"
  /\ last.req.token = NullToken
  /\ last.resp = InvalidToken
  /\ \E i, j \in 1..Len(users) :
       users[i].resetToken = NullToken /\ users[j].resetToken # NullToken

C21_NoEmptyPassword ==
  /\ \A i \in 1..Len(users) : ~PasswordMatches(users[i], "")
  /\ (last.op = "login" /\ last.req.password = "") => last.resp.token = NoToken

====
